---------------------------- MODULE Spec2Model ----------------------------
(***************************************************************************)
(* A model of src/unstable/hvac.py: the Thermostat (mode, target          *)
(* temperature, occupancy, sensor registry, time-window predicate) and    *)
(* the three actuator classes Heater, AirConditioner and Vent.            *)
(*                                                                         *)
(* Conventions.                                                            *)
(*  - A Python string is a tuple of one-character strings, so that        *)
(*    str.upper() is computed letter by letter.  A string of digits (a    *)
(*    schedule time such as "0600") is a tuple of digits.                 *)
(*  - Python's None is the empty tuple <<>> and a present value v is the  *)
(*    one-element tuple <<v>>; the same encoding is used for a dictionary *)
(*    key that is absent (<<>>) or present with value v (<<v>>).          *)
(*  - The source file has three spelling slips that stop it from being    *)
(*    compiled ("for pin is", "area.upper() = sensor.name", a stray space *)
(*    before the second "if" of each state setter).  They are read as     *)
(*    "for pin in", "==" and an "if" at the level of the first one.       *)
(*    Everything else is modelled as written, e.g. "self.turnOff"         *)
(*    without a call and "self.getbetweenTime", a name the class does not *)
(*    define.                                                              *)
(*  - call is the record of the operation that made the last step, err    *)
(*    the name of the exception it let escape ("" when none), ret what it *)
(*    returned.                                                            *)
(***************************************************************************)
EXTENDS Integers, Sequences, FiniteSets

VARIABLES
    actState,       \* actuator -> its _state attribute (a Python string)
    writes,         \* actuator -> the board.digital_write calls so far, <<pin index, level>>
    thMode,         \* Thermostat._mode
    desiredTemp,    \* Thermostat._desiredTemp (None or <<number>>)
    occupied,       \* Thermostat._occupied (None or <<BOOLEAN>>)
    tempSettings,   \* Thermostat.tempSettings (None or <<dictionary of season tables>>)
    pinned,         \* history: the last non-empty value assigned to desiredTemp
    now,            \* what datetime.datetime.now() returns: [month, hour, minute]
    tempSensors,    \* Thermostat.tempSensors, a list of sensors
    groups,         \* Thermostat.groups: a dictionary, group key -> list of sensors
    tempC,          \* sensor -> its tempC attribute
    pinModeCalls,   \* sensor -> number of board.set_pin_mode calls for its control pin
    created,        \* history: the names createSensorGroup was called with
    mqtt,           \* Thermostat._mqtt (None or <<connection settings>>)
    mqttEnabled,    \* the module's MQTT_ENABLED: whether paho-mqtt could be imported
    thr,            \* the threads of a host that calls a state setter concurrently
    timeList,       \* the argument of getBetweenTime: <<start, end>>
    call,           \* the operation of the last step
    ret,            \* its return value (None or <<value>>)
    err             \* the exception it raised, "" when none

actVars == <<actState, writes, thr>>
thVars == <<thMode, desiredTemp, occupied, tempSettings, pinned, mqtt, mqttEnabled>>
regVars == <<tempSensors, groups, tempC, pinModeCalls, created>>
vars == <<actState, writes, thMode, desiredTemp, occupied, tempSettings, pinned,
          now, tempSensors, groups, tempC, pinModeCalls, timeList, call, ret, err,
          created, mqtt, mqttEnabled, thr>>

None == <<>>
Some(v) == <<v>>

(***************************************************************************)
(* Python strings and str.upper()                                          *)
(***************************************************************************)
LowerLetters == <<"a","b","c","d","e","f","g","h","i","j","k","l","m",
                  "n","o","p","q","r","s","t","u","v","w","x","y","z">>
UpperLetters == <<"A","B","C","D","E","F","G","H","I","J","K","L","M",
                  "N","O","P","Q","R","S","T","U","V","W","X","Y","Z">>

UpperChar(c) ==
    IF \E i \in 1..Len(LowerLetters) : LowerLetters[i] = c
    THEN UpperLetters[CHOOSE i \in 1..Len(LowerLetters) : LowerLetters[i] = c]
    ELSE c

StrUpper(s) == [i \in 1..Len(s) |-> UpperChar(s[i])]

(***************************************************************************)
(* Actuators: Heater, AirConditioner, Vent (three copies of one class)     *)
(***************************************************************************)
Actuators == {"heater", "ac", "vent"}

ON == <<"O","N">>
OFF == <<"O","F","F">>

\* The commands given to the state setters: both valid commands in two
\* letter cases, and a value that is neither.
Commands == {ON, OFF, <<"o","n">>, <<"O","f","f">>, <<"A","U","T","O">>}

\* A bound of the model: setState is not called on an actuator whose
\* write log already holds this many pulses.
MaxPulses == 2

\* The index in controlPins of the pin turnOn drives (the on-channel) and
\* of the pin turnOff drives (the off-channel).
OnChannel == 0
OffChannel == 1

\* turnOn: digital_write(controlPins[0], 1); sleep; digital_write(controlPins[0], 0); sleep
turnOn(log) == log \o << <<OnChannel, 1>>, <<OnChannel, 0>> >>

\* turnOff: digital_write(controlPins[1], 1); sleep; digital_write(controlPins[1], 0); sleep
turnOff(log) == log \o << <<OffChannel, 1>>, <<OffChannel, 0>> >>

\* The state setter with the ON pulse left out when the actuator is already ON.
StateSetterDedup(st, log, onOff) ==
    LET afterOn == IF StrUpper(onOff) = ON
                   THEN [st |-> onOff, log |-> IF st = ON THEN log ELSE turnOn(log)]
                   ELSE [st |-> st, log |-> log]
    IN  IF StrUpper(onOff) = OFF THEN [st |-> onOff, log |-> afterOn.log] ELSE afterOn

\* The state setter storing a command that is neither ON nor OFF.
StateSetterStoreAny(st, log, onOff) ==
    IF StrUpper(onOff) = ON THEN [st |-> onOff, log |-> turnOn(log)]
    ELSE [st |-> onOff, log |-> log]

\* The state setter: the two ifs are tested one after the other; the first
\* stores the command as given and calls turnOn, the second stores the
\* command as given and evaluates the bound method self.turnOff without
\* calling it, so nothing is written.
StateSetter(st, log, onOff) ==
    LET afterOn == IF StrUpper(onOff) = ON
                   THEN [st |-> onOff, log |-> turnOn(log)]
                   ELSE [st |-> st, log |-> log]
    IN  IF StrUpper(onOff) = OFF THEN [st |-> onOff, log |-> afterOn.log] ELSE afterOn

\* No state setter is being executed by a thread.
NoThreads == [run |-> <<>>, last |-> None]

\* Heater.__init__ / AirConditioner.__init__ / Vent.__init__
ActInit ==
    /\ actState = [a \in Actuators |-> OFF]
    /\ writes = [a \in Actuators |-> <<>>]
    /\ thr = NoThreads

\* HVAC.changeHeatState / changeACState / changeVentState (a.state = onOff)
SetState(a, onOff) ==
    /\ Len(writes[a]) < 2 * MaxPulses
    /\ LET r == StateSetter(actState[a], writes[a], onOff)
       IN  /\ actState' = [actState EXCEPT ![a] = r.st]
           /\ writes' = [writes EXCEPT ![a] = r.log]
    /\ call' = [op |-> "setState", who |-> a, arg |-> onOff, pre |-> actState[a]]
    /\ ret' = None
    /\ err' = ""
    /\ UNCHANGED <<thr, thVars, regVars, now, timeList>>

\* The callers that may be inside a state setter at the same time.
Threads == {"t1", "t2"}

\* The writes the setters already entered on actuator a have yet to make.
PendingWrites(a) ==
    LET on(p) == {t \in DOMAIN thr.run : thr.run[t].who = a /\ thr.run[t].pc = p}
    IN  2 * Cardinality(on("test")) + 2 * Cardinality(on("high")) + Cardinality(on("low"))

\* Thread t enters a.state = onOff; the setter takes no lock.
ThreadBegin(t, a, onOff) ==
    /\ t \notin DOMAIN thr.run
    /\ Len(writes[a]) + PendingWrites(a) < 2 * MaxPulses
    /\ thr' = [thr EXCEPT !.run = [u \in DOMAIN thr.run \cup {t} |->
                                      IF u = t THEN [who |-> a, cmd |-> onOff, pc |-> "test"]
                                      ELSE thr.run[u]]]
    /\ call' = [op |-> "threadBegin", thread |-> t, who |-> a, arg |-> onOff]
    /\ ret' = None
    /\ err' = ""
    /\ UNCHANGED <<actState, writes, thVars, regVars, now, timeList>>

\* Thread t leaves the setter.
Leave(t) == [u \in DOMAIN thr.run \ {t} |-> thr.run[u]]

\* Thread t tests its command and stores it: ON goes on to turnOn, OFF
\* stores and returns (self.turnOff is not called), any other value returns.
ThreadStore(t) ==
    /\ t \in DOMAIN thr.run
    /\ thr.run[t].pc = "test"
    /\ LET a == thr.run[t].who
           onOff == thr.run[t].cmd
       IN  /\ actState' = IF StrUpper(onOff) \in {ON, OFF}
                           THEN [actState EXCEPT ![a] = onOff]
                           ELSE actState
           /\ thr' = IF StrUpper(onOff) = ON
                      THEN [thr EXCEPT !.run[t].pc = "high"]
                      ELSE [thr EXCEPT !.run = Leave(t)]
    /\ call' = [op |-> "threadStore", thread |-> t]
    /\ ret' = None
    /\ err' = ""
    /\ UNCHANGED <<writes, thVars, regVars, now, timeList>>

\* Thread t in turnOn: digital_write(controlPins[0], 1), then it sleeps.
ThreadHigh(t) ==
    /\ t \in DOMAIN thr.run
    /\ thr.run[t].pc = "high"
    /\ LET a == thr.run[t].who
       IN  /\ writes' = [writes EXCEPT ![a] = Append(@, <<OnChannel, 1>>)]
           /\ thr' = [thr EXCEPT !.run[t].pc = "low",
                                  !.last = Some([who |-> a, cmd |-> thr.run[t].cmd])]
    /\ call' = [op |-> "threadHigh", thread |-> t]
    /\ ret' = None
    /\ err' = ""
    /\ UNCHANGED <<actState, thVars, regVars, now, timeList>>

\* Thread t in turnOn after the sleep: digital_write(controlPins[0], 0),
\* the second sleep, and the return from the setter.
ThreadLow(t) ==
    /\ t \in DOMAIN thr.run
    /\ thr.run[t].pc = "low"
    /\ LET a == thr.run[t].who
       IN  /\ writes' = [writes EXCEPT ![a] = Append(@, <<OnChannel, 0>>)]
           /\ thr' = [thr EXCEPT !.run = Leave(t)]
    /\ call' = [op |-> "threadLow", thread |-> t]
    /\ ret' = None
    /\ err' = ""
    /\ UNCHANGED <<actState, thVars, regVars, now, timeList>>

(***************************************************************************)
(* The clock and the time-window predicate                                 *)
(***************************************************************************)
\* int(s) of a string of digits
RECURSIVE IntOf(_)
IntOf(s) == IF s = <<>> THEN 0 ELSE 10 * IntOf(SubSeq(s, 1, Len(s) - 1)) + s[Len(s)]

\* s[:2] and s[2:]
Prefix2(s) == SubSeq(s, 1, IF Len(s) < 2 THEN Len(s) ELSE 2)
From2(s) == SubSeq(s, 3, Len(s))

T0 == <<0>>
T0600 == <<0, 6, 0, 0>>
T0930 == <<0, 9, 3, 0>>
T2215 == <<2, 2, 1, 5>>

\* The schedule times the model draws windows from.
TimeStrings == {T0, T0600, T0930, T2215}

\* getBetweenTime with the end test "now.minute <= endMinute".
GetBetweenTimeInclusive(tl, t) ==
    IF IntOf(tl[1]) = 0 \/ IntOf(tl[2]) = 0
    THEN [ret |-> Some(TRUE), err |-> ""]
    ELSE IF From2(tl[1]) = <<>> \/ From2(tl[2]) = <<>>
    THEN [ret |-> None, err |-> "ValueError"]
    ELSE [ret |-> Some(/\ t.hour >= IntOf(Prefix2(tl[1]))
                       /\ t.minute >= IntOf(From2(tl[1]))
                       /\ t.hour <= IntOf(Prefix2(tl[2]))
                       /\ t.minute <= IntOf(From2(tl[2]))),
          err |-> ""]

\* getBetweenTime(timeList) at time t: int("") raises ValueError.
GetBetweenTime(tl, t) ==
    IF IntOf(tl[1]) = 0 \/ IntOf(tl[2]) = 0
    THEN [ret |-> Some(TRUE), err |-> ""]
    ELSE IF From2(tl[1]) = <<>> \/ From2(tl[2]) = <<>>
    THEN [ret |-> None, err |-> "ValueError"]
    ELSE [ret |-> Some(/\ t.hour >= IntOf(Prefix2(tl[1]))
                       /\ t.minute >= IntOf(From2(tl[1]))
                       /\ t.hour <= IntOf(Prefix2(tl[2]))
                       /\ t.minute < IntOf(From2(tl[2]))),
          err |-> ""]

\* One minute later on the same day of the same month (23:59 wraps to 00:00).
NextMinute(t) ==
    IF t.minute < 59 THEN [t EXCEPT !.minute = t.minute + 1]
    ELSE [t EXCEPT !.minute = 0, !.hour = (t.hour + 1) % 24]

\* Time passes: datetime.datetime.now() returns n from here on.
Tick(n) ==
    /\ now' = n
    /\ call' = [op |-> "tick"]
    /\ ret' = None
    /\ err' = ""
    /\ UNCHANGED <<actVars, thVars, regVars, timeList>>

\* thermostat.getBetweenTime(timeList)
CallGetBetweenTime ==
    /\ LET r == GetBetweenTime(timeList, now)
       IN  ret' = r.ret /\ err' = r.err
    /\ call' = [op |-> "getBetweenTime"]
    /\ UNCHANGED <<actVars, thVars, regVars, timeList, now>>

(***************************************************************************)
(* Thermostat: mode, target temperature, occupancy                         *)
(***************************************************************************)
modes == {"AUTO", "MANUAL"}

\* Python truth value of a temperature: None and 0 are false.
Truthy(temp) == temp # None /\ temp # Some(0)

\* The names the Thermostat class defines (its methods and properties).
ThermostatAttributes ==
    {"mode", "desiredTemp", "mqtt", "occupied", "addSensor", "createSensorGroup",
     "addSensorToGroup", "updateSensors", "getTemp", "publish", "getBetweenTime"}

\* The mode setter without its assignment.
ModeSetterKeep(mode, m) == mode

\* The mode setter switching back to AUTO when the mode is assigned again.
ModeSetterToggle(mode, m) == IF mode = m THEN "AUTO" ELSE m

\* The mode setter: assigns only a known mode that differs from the current one.
ModeSetter(mode, m) == IF m \in modes /\ m # mode THEN m ELSE mode

\* The first test of the season selection: month >= 11 or month <= 3.
IsWinterMonth(month) == month >= 11 \/ month <= 3

\* The second test as written: month >= 7 or month <= 9.
IsSummerMonth(month) == month >= 7 \/ month <= 9

\* The season whose table the desiredTemp setter reads, "NONE" when it reads none.
SelectSeason(month) ==
    IF IsWinterMonth(month) THEN "WINTER"
    ELSE IF IsSummerMonth(month) THEN "SUMMER"
    ELSE "NONE"

\* The concatenation of a list of lists.
RECURSIVE Flatten(_)
Flatten(ls) == IF ls = <<>> THEN <<>> ELSE Head(ls) \o Flatten(Tail(ls))

\* modTemp: the sum of mlist[2] over the entries of modList whose window
\* getBetweenTime reports as applying at time t.
RECURSIVE ModTemp(_, _)
ModTemp(modList, t) ==
    IF modList = <<>> THEN 0
    ELSE (IF GetBetweenTime(<<Head(modList)[1], Head(modList)[2]>>, t).ret = Some(TRUE)
          THEN Head(modList)[3] ELSE 0) + ModTemp(Tail(modList), t)

\* The body of the desiredTemp setter after "if temp:" failed, on a season
\* table tbl that exists.  Yields the table as the pops leave it, the new
\* target and the exception that escapes.
ComputeFromTable(tbl, temp, target, occ, t) ==
    IF tbl.DEFAULT_TEMP = None
    THEN \* tempDict.pop("DEFAULT_TEMP") raises KeyError, caught at the end
         [tbl |-> tbl, target |-> temp, err |-> ""]
    ELSE LET startTemp == tbl.DEFAULT_TEMP[1]
             hasOcc == tbl.OCCUPIED_SETTINGS # None
             key == IF occ = Some(TRUE) THEN "HOME" ELSE "AWAY"
             \* a missing HOME / AWAY key raises KeyError, passed over
             occList == IF hasOcc /\ tbl.OCCUPIED_SETTINGS[1][key] # None
                        THEN tbl.OCCUPIED_SETTINGS[1][key][1] ELSE <<>>
             popped == [tbl EXCEPT !.DEFAULT_TEMP = None, !.OCCUPIED_SETTINGS = None]
             modList == occList \o Flatten(tbl.rest)
         IN  IF modList = <<>>
             THEN [tbl |-> popped, target |-> Some(startTemp), err |-> ""]
             ELSE IF "getbetweenTime" \in ThermostatAttributes
             THEN [tbl |-> popped, target |-> Some(startTemp + ModTemp(modList, t)), err |-> ""]
             ELSE \* self.getbetweenTime: no such attribute; not a KeyError, so it escapes
                  [tbl |-> popped, target |-> target, err |-> "AttributeError"]

\* The desiredTemp setter: the thermostat's mode, target and schedule table
\* after "thermostat.desiredTemp = temp" at time t, and the exception raised.
DesiredTempSetter(mode, target, settings, occ, temp, t) ==
    IF Truthy(temp)
    THEN [mode |-> ModeSetter(mode, "MANUAL"), target |-> temp, settings |-> settings,
          season |-> "NONE", err |-> ""]
    ELSE LET season == SelectSeason(t.month)
         IN  IF season = "NONE"
             THEN [mode |-> mode, target |-> None, settings |-> settings,
                   season |-> season, err |-> ""]
             ELSE IF settings = None
             THEN \* None["WINTER"] raises TypeError, which nothing catches
                  [mode |-> mode, target |-> target, settings |-> settings,
                   season |-> season, err |-> "TypeError"]
             ELSE IF settings[1][season] = None
             THEN \* KeyError, caught: self._desiredTemp = temp
                  [mode |-> mode, target |-> temp, settings |-> settings,
                   season |-> season, err |-> ""]
             ELSE LET r == ComputeFromTable(settings[1][season][1], temp, target, occ, t)
                  IN  [mode |-> mode, target |-> r.target,
                       settings |-> Some([settings[1] EXCEPT ![season] = Some(r.tbl)]),
                       season |-> season, err |-> r.err]

\* Schedule entries <<start, end, delta>>.
AlwaysMinus2 == <<T0, T0, -2>>
AlwaysMinus3 == <<T0, T0, -3>>
MorningPlus1 == <<T0600, T0930, 1>>
NightMinus4 == <<T2215, T0600, -4>>

\* A season table with a base value only.
PlainTable(base) ==
    [DEFAULT_TEMP |-> Some(base), OCCUPIED_SETTINGS |-> None, rest |-> <<>>]

\* A season table with an occupancy section and one more rule group.
FullTable(base) ==
    [DEFAULT_TEMP |-> Some(base),
     OCCUPIED_SETTINGS |-> Some([HOME |-> Some(<<MorningPlus1>>), AWAY |-> Some(<<AlwaysMinus3>>)]),
     rest |-> << <<AlwaysMinus2>>, <<NightMinus4>> >>]

\* The tempSettings values the thermostat is constructed with: none, no
\* winter table, base values only, modifier entries in both seasons.
InitialSettings ==
    {None,
     Some([WINTER |-> None, SUMMER |-> Some(PlainTable(75))]),
     Some([WINTER |-> Some(PlainTable(68)), SUMMER |-> Some(PlainTable(75))]),
     Some([WINTER |-> Some(FullTable(68)), SUMMER |-> Some(FullTable(75))])}

\* The values assigned to desiredTemp.
TempValues == {None, Some(0), Some(65), Some(72)}

\* The times of day at which the thermostat is driven.
ThermTimes == {<<7, 0>>}

ThermNows == {[month |-> m, hour |-> hm[1], minute |-> hm[2]] : m \in 1..12, hm \in ThermTimes}

\* The connection settings of a broker.
BrokerSettings ==
    [PATH |-> "home", HOST |-> "broker", PORT |-> "1883", USER |-> "u", PASSWORD |-> "p"]

\* The values of the mqtt argument and of the mqtt setter.
MqttValues == {None, Some(BrokerSettings)}

\* Thermostat.__init__ with tempSettings one of the values of S, mqtt one
\* of the values of M, in a process whose MQTT_ENABLED is one of E
ThermInitMqtt(S, M, E) ==
    /\ thMode = "AUTO"
    /\ desiredTemp = None
    /\ occupied = None
    /\ tempSettings \in S
    /\ pinned = None
    /\ mqtt \in M
    /\ mqttEnabled \in E

\* Thermostat.__init__ without mqtt settings, paho-mqtt installed
ThermInit(S) == ThermInitMqtt(S, {None}, {TRUE})

\* thermostat.mqtt = mqtt_variables
SetMqtt(mqtt_variables) ==
    /\ mqtt' = IF mqttEnabled THEN mqtt_variables ELSE None
    /\ call' = [op |-> "mqtt", arg |-> mqtt_variables]
    /\ ret' = None
    /\ err' = ""
    /\ UNCHANGED <<thMode, desiredTemp, occupied, tempSettings, pinned, mqttEnabled,
                   actVars, regVars, now, timeList>>

\* thermostat.desiredTemp = temp
SetDesiredTemp(temp) ==
    /\ LET r == DesiredTempSetter(thMode, desiredTemp, tempSettings, occupied, temp, now)
       IN  /\ thMode' = r.mode
           /\ desiredTemp' = r.target
           /\ tempSettings' = r.settings
           /\ err' = r.err
           /\ call' = [op |-> "desiredTemp", arg |-> temp, season |-> r.season, pre |-> thMode]
    /\ pinned' = IF Truthy(temp) THEN temp ELSE pinned
    /\ ret' = None
    /\ UNCHANGED <<occupied, mqtt, mqttEnabled, actVars, regVars, now, timeList>>

\* thermostat.occupied = homeList
SetOccupied(homeList) ==
    /\ occupied' = IF homeList # <<>> THEN Some(TRUE) ELSE Some(FALSE)
    /\ call' = [op |-> "occupied", arg |-> homeList]
    /\ ret' = None
    /\ err' = ""
    /\ UNCHANGED <<thMode, desiredTemp, tempSettings, pinned, mqtt, mqttEnabled,
                   actVars, regVars, now, timeList>>

(***************************************************************************)
(* Thermostat: the sensor registry                                         *)
(***************************************************************************)
\* The sensor objects handed to the thermostat.  The Sensor class is not
\* part of the source; a sensor has a name, a control pin, tempC and tempF,
\* and two sensors are equal only when they are the same object.
Sensors == {"s1", "s2", "s3"}

SensorName(s) ==
    CASE s = "s1" -> <<"U","P">>
      [] s = "s2" -> <<"D","e","n">>
      [] OTHER    -> <<"L","A","B">>

\* The names given to createSensorGroup and addSensorToGroup.
GroupNames == {<<"u","p">>, <<"U","P">>, <<"L","A","B">>}

\* The areas asked of getTemp.
Areas == {<<"u","p">>, <<"D","e","n">>, <<"L","A","B">>, <<"x">>}

TempFormats == {"F", "C"}

\* What board.analog_read returns.
Readings == {10, 20, 30}

\* sensor.tempF for a sensor whose tempC is c.
TempF(c) == (c * 9) \div 5 + 32

\* "x in list"
InList(x, list) == \E i \in 1..Len(list) : list[i] = x

\* The number of times x occurs in list.
Count(x, list) == Cardinality({i \in 1..Len(list) : list[i] = x})

RECURSIVE Gcd(_, _)
Gcd(a, b) == IF b = 0 THEN a ELSE Gcd(b, a % b)

\* A number returned by getTemp is a fraction in lowest terms, so that an
\* int and the float equal to it are one value: the integer v.
Number(v) == [num |-> v, den |-> 1]

\* Python's a / b for non-negative a and positive b.
TrueDiv(a, b) == [num |-> a \div Gcd(a, b), den |-> b \div Gcd(a, b)]

\* The value of a sensor in the unit asked for: tempF when tempFormat == "F", else tempC.
SensorTemp(s, tempFormat) == IF tempFormat = "F" THEN TempF(tempC[s]) ELSE tempC[s]

\* temp after the loop "for sensor in self.groups[key]: temp += ..."
RECURSIVE SumTemps(_, _)
SumTemps(list, tempFormat) ==
    IF list = <<>> THEN 0
    ELSE SensorTemp(Head(list), tempFormat) + SumTemps(Tail(list), tempFormat)

\* getTemp trying the sensor names before the group names.
GetTempSensorFirst(area, tempFormat) ==
    LET key == StrUpper(area)
        hits == {i \in 1..Len(tempSensors) : key = SensorName(tempSensors[i])}
    IN  IF hits # {}
        THEN [ret |-> Some(Number(SensorTemp(
                               tempSensors[CHOOSE i \in hits : \A j \in hits : i <= j],
                               tempFormat))), err |-> ""]
        ELSE IF key \in DOMAIN groups
        THEN IF groups[key] = <<>>
             THEN [ret |-> None, err |-> "ZeroDivisionError"]
             ELSE [ret |-> Some(TrueDiv(SumTemps(groups[key], tempFormat), Len(groups[key]))),
                   err |-> ""]
        ELSE [ret |-> None, err |-> ""]

\* getTemp(area, tempFormat): its return value and the exception it raises.
GetTemp(area, tempFormat) ==
    LET key == StrUpper(area)
        hits == {i \in 1..Len(tempSensors) : key = SensorName(tempSensors[i])}
    IN  IF key \in DOMAIN groups
        THEN IF groups[key] = <<>>
             THEN \* temp / len(...) with an empty list
                  [ret |-> None, err |-> "ZeroDivisionError"]
             ELSE [ret |-> Some(TrueDiv(SumTemps(groups[key], tempFormat), Len(groups[key]))),
                   err |-> ""]
        ELSE IF hits # {}
        THEN [ret |-> Some(Number(SensorTemp(
                               tempSensors[CHOOSE i \in hits : \A j \in hits : i <= j],
                               tempFormat))), err |-> ""]
        ELSE [ret |-> None, err |-> ""]

\* addSensor without the test "sensor not in self.tempSensors".
AddSensorAlways(list, sensor) == [list |-> Append(list, sensor), configured |-> TRUE]

\* addSensor: the list afterwards, and whether set_pin_mode was called.
AddSensorEffect(list, sensor) ==
    IF ~InList(sensor, list)
    THEN [list |-> Append(list, sensor), configured |-> TRUE]
    ELSE [list |-> list, configured |-> FALSE]

\* addSensorToGroup without the test "sensor in self.tempSensors".
AddToGroupUnregistered(grps, list, sensor, group) ==
    IF group \in DOMAIN grps /\ ~InList(sensor, grps[group])
    THEN [grps EXCEPT ![group] = Append(grps[group], sensor)]
    ELSE grps

\* addSensorToGroup: the groups dictionary afterwards.
AddToGroupEffect(grps, list, sensor, group) ==
    IF group \in DOMAIN grps /\ InList(sensor, list) /\ ~InList(sensor, grps[group])
    THEN [grps EXCEPT ![group] = Append(grps[group], sensor)]
    ELSE grps

\* The registry of a new Thermostat, and the sensors as they were built,
\* each with one of the values of R as its tempC.
RegInit(R) ==
    /\ tempSensors = <<>>
    /\ groups = <<>>
    /\ tempC \in [Sensors -> R]
    /\ pinModeCalls = [s \in Sensors |-> 0]
    /\ created = {}

\* thermostat.addSensor(sensor)
AddSensor(sensor) ==
    /\ LET r == AddSensorEffect(tempSensors, sensor)
       IN  /\ tempSensors' = r.list
           /\ pinModeCalls' = [pinModeCalls EXCEPT
                                 ![sensor] = IF r.configured THEN @ + 1 ELSE @]
    /\ call' = [op |-> "addSensor", sensor |-> sensor, pre |-> InList(sensor, tempSensors)]
    /\ ret' = None
    /\ err' = ""
    /\ UNCHANGED <<groups, tempC, created, actVars, thVars, now, timeList>>

\* thermostat.createSensorGroup(groupName)
CreateSensorGroup(groupName) ==
    /\ groups' = IF StrUpper(groupName) \notin DOMAIN groups
                 THEN [k \in DOMAIN groups \cup {StrUpper(groupName)} |->
                         IF k = StrUpper(groupName) THEN <<>> ELSE groups[k]]
                 ELSE groups
    /\ created' = created \cup {groupName}
    /\ call' = [op |-> "createSensorGroup", group |-> groupName]
    /\ ret' = None
    /\ err' = ""
    /\ UNCHANGED <<tempSensors, tempC, pinModeCalls, actVars, thVars, now, timeList>>

\* thermostat.addSensorToGroup(sensor, group)
AddSensorToGroup(sensor, group) ==
    /\ groups' = AddToGroupEffect(groups, tempSensors, sensor, group)
    /\ call' = [op |-> "addSensorToGroup", sensor |-> sensor, group |-> group,
                pre |-> [exists |-> group \in DOMAIN groups,
                         registered |-> InList(sensor, tempSensors),
                         member |-> group \in DOMAIN groups /\ InList(sensor, groups[group])]]
    /\ ret' = None
    /\ err' = ""
    /\ UNCHANGED <<tempSensors, tempC, pinModeCalls, created, actVars, thVars, now, timeList>>

\* thermostat.updateSensors(), the board returning reading[s] for the pin of s
UpdateSensors(reading) ==
    /\ tempC' = [s \in Sensors |-> IF InList(s, tempSensors) THEN reading[s] ELSE tempC[s]]
    /\ call' = [op |-> "updateSensors"]
    /\ ret' = None
    /\ err' = ""
    /\ UNCHANGED <<tempSensors, groups, pinModeCalls, created, actVars, thVars, now, timeList>>

\* thermostat.getTemp(area, tempFormat)
CallGetTemp(area, tempFormat) ==
    /\ LET r == GetTemp(area, tempFormat)
       IN  ret' = r.ret /\ err' = r.err
    /\ call' = [op |-> "getTemp", area |-> area, tempFormat |-> tempFormat]
    /\ UNCHANGED <<regVars, actVars, thVars, now, timeList>>

\* publish(): the exception it raises.  With MQTT enabled and settings
\* present it walks the sensors, then the groups; for the first of them it
\* calls getTemp(name) and then "/".join(path, name.lower()), a call of
\* str.join with two arguments, which raises TypeError.  firstGroup is the
\* key the groups dictionary yields first.
PublishError(firstGroup) ==
    IF ~(mqttEnabled /\ mqtt # None) THEN ""
    ELSE IF tempSensors # <<>>
    THEN IF GetTemp(SensorName(tempSensors[1]), "F").err # ""
         THEN GetTemp(SensorName(tempSensors[1]), "F").err
         ELSE "TypeError"
    ELSE IF DOMAIN groups # {}
    THEN IF GetTemp(firstGroup, "F").err # ""
         THEN GetTemp(firstGroup, "F").err
         ELSE "TypeError"
    ELSE ""

\* thermostat.publish()
Publish ==
    /\ \E g \in (IF DOMAIN groups = {} THEN {<<>>} ELSE DOMAIN groups) :
           err' = PublishError(g)
    /\ call' = [op |-> "publish"]
    /\ ret' = None
    /\ UNCHANGED <<regVars, actVars, thVars, now, timeList>>

(***************************************************************************)
(* Specifications                                                          *)
(***************************************************************************)
NoCall ==
    /\ call = [op |-> "init"]
    /\ ret = None
    /\ err = ""

Midwinter == [month |-> 1, hour |-> 7, minute |-> 0]

AllMinutes == {[month |-> 1, hour |-> h, minute |-> m] : h \in 0..23, m \in 0..59}

\* The whole program.
Init ==
    /\ ActInit
    /\ ThermInit(InitialSettings)
    /\ RegInit(Readings)
    /\ now \in ThermNows
    /\ timeList \in TimeStrings \X TimeStrings
    /\ NoCall

Next ==
    \/ \E a \in Actuators, c \in Commands : SetState(a, c)
    \/ \E temp \in TempValues : SetDesiredTemp(temp)
    \/ \E homeList \in {<<>>, <<"ann">>} : SetOccupied(homeList)
    \/ \E n \in ThermNows : Tick(n)
    \/ \E s \in Sensors : AddSensor(s)
    \/ \E g \in GroupNames : CreateSensorGroup(g)
    \/ \E s \in Sensors, g \in GroupNames : AddSensorToGroup(s, g)
    \/ \E r \in [Sensors -> Readings] : UpdateSensors(r)
    \/ \E area \in Areas, f \in TempFormats : CallGetTemp(area, f)
    \/ \E m \in MqttValues : SetMqtt(m)
    \/ Publish
    \/ CallGetBetweenTime

Spec == Init /\ [][Next]_vars

\* The actuators alone.
InitAct ==
    /\ ActInit
    /\ ThermInit({None})
    /\ RegInit({10})
    /\ now = Midwinter
    /\ timeList = <<T0, T0>>
    /\ NoCall

NextAct == \E a \in Actuators, c \in Commands : SetState(a, c)

SpecAct == InitAct /\ [][NextAct]_vars

\* The thermostat's mode, target and occupancy, driven in every month.
InitTherm ==
    /\ ActInit
    /\ ThermInit(InitialSettings)
    /\ RegInit({10})
    /\ now \in ThermNows
    /\ timeList = <<T0, T0>>
    /\ NoCall

NextTherm ==
    \/ \E temp \in TempValues : SetDesiredTemp(temp)
    \/ \E homeList \in {<<>>, <<"ann">>} : SetOccupied(homeList)
    \/ \E n \in ThermNows : Tick(n)

SpecTherm == InitTherm /\ [][NextTherm]_vars

\* The sensor registry: registering sensors, creating and filling groups.
InitReg ==
    /\ ActInit
    /\ ThermInit({None})
    /\ RegInit({10})
    /\ now = Midwinter
    /\ timeList = <<T0, T0>>
    /\ NoCall

NextReg ==
    \/ \E s \in Sensors : AddSensor(s)
    \/ \E g \in GroupNames : CreateSensorGroup(g)
    \/ \E s \in Sensors, g \in GroupNames : AddSensorToGroup(s, g)

SpecReg == InitReg /\ [][NextReg]_vars

\* The sensor registry with one group, read and queried.
ReadGroupNames == {<<"u","p">>, <<"U","P">>}

InitRead ==
    /\ ActInit
    /\ ThermInit({None})
    /\ RegInit(Readings)
    /\ now = Midwinter
    /\ timeList = <<T0, T0>>
    /\ NoCall

NextRead ==
    \/ \E s \in Sensors : AddSensor(s)
    \/ \E g \in ReadGroupNames : CreateSensorGroup(g)
    \/ \E s \in Sensors, g \in ReadGroupNames : AddSensorToGroup(s, g)
    \/ \E r \in [Sensors -> Readings] : UpdateSensors(r)
    \/ \E area \in Areas, f \in TempFormats : CallGetTemp(area, f)

SpecRead == InitRead /\ [][NextRead]_vars

\* The thermostat's target and occupancy operations together with registry
\* operations and commands to the heater.
InitMode ==
    /\ ActInit
    /\ ThermInit(InitialSettings)
    /\ RegInit({10})
    /\ now = Midwinter
    /\ timeList = <<T0, T0>>
    /\ NoCall

NextMode ==
    \/ \E temp \in TempValues : SetDesiredTemp(temp)
    \/ \E homeList \in {<<>>, <<"ann">>} : SetOccupied(homeList)
    \/ AddSensor("s1")
    \/ \E g \in ReadGroupNames : CreateSensorGroup(g)
    \/ \E g \in ReadGroupNames : AddSensorToGroup("s1", g)
    \/ \E onOff \in {ON, OFF} : SetState("heater", onOff)

SpecMode == InitMode /\ [][NextMode]_vars

\* Two callers commanding the heater at the same time.
InitConc ==
    /\ ActInit
    /\ ThermInit({None})
    /\ RegInit({10})
    /\ now = Midwinter
    /\ timeList = <<T0, T0>>
    /\ NoCall

NextConc ==
    \/ \E t \in Threads, onOff \in Commands : ThreadBegin(t, "heater", onOff)
    \/ \E t \in Threads : ThreadStore(t)
    \/ \E t \in Threads : ThreadHigh(t)
    \/ \E t \in Threads : ThreadLow(t)

SpecConc == InitConc /\ [][NextConc]_vars

\* The sensor registry queried and published, with and without MQTT.
InitPub ==
    /\ ActInit
    /\ ThermInitMqtt({None}, MqttValues, BOOLEAN)
    /\ RegInit({10})
    /\ now = Midwinter
    /\ timeList = <<T0, T0>>
    /\ NoCall

NextPub ==
    \/ \E s \in Sensors : AddSensor(s)
    \/ \E g \in ReadGroupNames : CreateSensorGroup(g)
    \/ \E s \in Sensors, g \in ReadGroupNames : AddSensorToGroup(s, g)
    \/ \E m \in MqttValues : SetMqtt(m)
    \/ \E area \in Areas, f \in TempFormats : CallGetTemp(area, f)
    \/ Publish

SpecPub == InitPub /\ [][NextPub]_vars

\* The time-window predicate at every minute of a day, for every window
\* made of the schedule times.
InitTime ==
    /\ ActInit
    /\ ThermInit({None})
    /\ RegInit({10})
    /\ now \in AllMinutes
    /\ timeList \in TimeStrings \X TimeStrings
    /\ NoCall

NextTime ==
    \/ Tick(NextMinute(now))
    \/ CallGetBetweenTime

SpecTime == InitTime /\ [][NextTime]_vars

(***************************************************************************)
(* Claims                                                                  *)
(***************************************************************************)
\* One pulse on a pin: written high, then low.
Pulse(pin) == << <<pin, 1>>, <<pin, 0>> >>

\* C1: a setState(OFF) command, on any actuator and from any recorded state,
\* leaves the recorded state OFF and appends exactly one pulse on the
\* actuator's off-channel to its writes (and so nothing on its on-channel).
C1_OffPulsesOffChannel ==
    [][(call'.op = "setState" /\ call'.arg = OFF) =>
          /\ actState'[call'.who] = OFF
          /\ writes'[call'.who] = writes[call'.who] \o Pulse(OffChannel)]_vars

C4_ManualTargetStaysPinned == thMode = "MANUAL" => desiredTemp = pinned

\* The season the claim gives each month.
ClaimedSeason(month) ==
    IF month \in {11, 12, 1, 2, 3} THEN "WINTER"
    ELSE IF month \in {7, 8, 9} THEN "SUMMER"
    ELSE "NONE"

\* C5: in the AUTO computation (an empty value assigned), months 11, 12, 1,
\* 2, 3 read the winter table, months 7, 8, 9 the summer table, and months
\* 4, 5, 6, 10 read no table and leave the target unset.
C5_SeasonByMonth ==
    (call.op = "desiredTemp" /\ ~Truthy(call.arg)) =>
        /\ call.season = ClaimedSeason(now.month)
        /\ ClaimedSeason(now.month) = "NONE" => desiredTemp = None

\* Base value plus the deltas of the entries of the season table tbl that
\* apply at time t: the HOME list when occupied, else the AWAY list, and
\* every entry of every other rule group.
ClaimedTarget(tbl, occ, t) ==
    LET key == IF occ = Some(TRUE) THEN "HOME" ELSE "AWAY"
        occList == IF tbl.OCCUPIED_SETTINGS # None /\ tbl.OCCUPIED_SETTINGS[1][key] # None
                   THEN tbl.OCCUPIED_SETTINGS[1][key][1] ELSE <<>>
    IN  tbl.DEFAULT_TEMP[1] + ModTemp(occList \o Flatten(tbl.rest), t)

\* C6: when an empty value is assigned and the selected season has a table
\* with a DEFAULT_TEMP, the target becomes DEFAULT_TEMP plus the sum of the
\* deltas of all applying entries (overlapping entries add up).
C6_TargetIsBasePlusDeltas ==
    [][(/\ call'.op = "desiredTemp" /\ ~Truthy(call'.arg)
        /\ call'.season # "NONE"
        /\ tempSettings # None
        /\ tempSettings[1][call'.season] # None
        /\ tempSettings[1][call'.season][1].DEFAULT_TEMP # None) =>
          desiredTemp' =
              Some(ClaimedTarget(tempSettings[1][call'.season][1], occupied, now))]_vars

\* Minutes since midnight of a four-digit schedule time.
MinuteOfDay(s) == 60 * IntOf(Prefix2(s)) + IntOf(From2(s))

\* C7: a window with non-zero start and end applies exactly at the times
\* of day in the half-open interval [start, end); 0600-0930 applies at
\* every minute from 06:00 to 09:29 and at no other.
C7_WindowIsHalfOpenInterval ==
    (/\ call.op = "getBetweenTime"
     /\ IntOf(timeList[1]) # 0 /\ IntOf(timeList[2]) # 0) =>
        ret = Some(/\ MinuteOfDay(timeList[1]) <= 60 * now.hour + now.minute
                   /\ 60 * now.hour + now.minute < MinuteOfDay(timeList[2]))

\* Every member of every group is a registered sensor and occurs once in it.
GroupsWellFormed ==
    \A g \in DOMAIN groups : \A i \in 1..Len(groups[g]) :
        /\ InList(groups[g][i], tempSensors)
        /\ Count(groups[g][i], groups[g]) = 1

\* C8: addSensorToGroup(sensor, group) appends the sensor to the group when
\* the group exists, the sensor is registered and it is not yet a member,
\* and in each of the three other cases changes neither the registered
\* sensors nor any group; after every step each group's members are
\* registered sensors that occur once.
C8_AddToGroupGuarded ==
    [][/\ call'.op = "addSensorToGroup" =>
            LET s == call'.sensor
                g == call'.group
                ok == /\ g \in DOMAIN groups
                      /\ InList(s, tempSensors)
                      /\ ~InList(s, groups[g])
            IN  /\ tempSensors' = tempSensors
                /\ ok => groups' = [groups EXCEPT ![g] = Append(groups[g], s)]
                /\ ~ok => groups' = groups
       /\ GroupsWellFormed']_vars

\* C8's case: a sensor that was never registered was offered to an existing
\* group and is not in it, while a group holds two members.
C8_Witness ==
    /\ call.op = "addSensorToGroup"
    /\ call.pre.exists /\ ~call.pre.registered
    /\ ~InList(call.sensor, tempSensors)
    /\ ~InList(call.sensor, groups[call.group])
    /\ \E g \in DOMAIN groups : Len(groups[g]) = 2

\* C9: addSensor of a sensor already registered changes neither the list
\* of sensors nor the pin configuration; addSensor of an unknown sensor
\* appends it once and configures its pin once.
C9_AddSensorIdempotent ==
    [][call'.op = "addSensor" =>
          LET s == call'.sensor
          IN  IF InList(s, tempSensors)
              THEN tempSensors' = tempSensors /\ pinModeCalls' = pinModeCalls
              ELSE /\ tempSensors' = Append(tempSensors, s)
                   /\ pinModeCalls' = [pinModeCalls EXCEPT ![s] = pinModeCalls[s] + 1]
                   /\ Count(s, tempSensors') = 1]_vars

\* C9's case: a sensor registered again: it is in the list once, its pin
\* was configured once, and other sensors are registered too.
C9_Witness ==
    /\ call.op = "addSensor" /\ call.pre
    /\ Count(call.sensor, tempSensors) = 1
    /\ pinModeCalls[call.sensor] = 1
    /\ Len(tempSensors) = 3

\* The sum of the members' values in the unit asked for.
RECURSIVE MemberSum(_, _, _)
MemberSum(list, i, unit) ==
    IF i = 0 THEN 0
    ELSE MemberSum(list, i - 1, unit)
         + (IF unit = "C" THEN tempC[list[i]] ELSE TempF(tempC[list[i]]))

\* C10: getTemp of an area that names a group with members (in any letter
\* case, and also when a registered sensor has that name) returns the mean
\* of the members' values in the unit asked for: the result times the
\* number of members is the sum of their values.
C10_GroupMean ==
    (/\ call.op = "getTemp"
     /\ StrUpper(call.area) \in DOMAIN groups
     /\ groups[StrUpper(call.area)] # <<>>) =>
        LET members == groups[StrUpper(call.area)]
        IN  /\ err = ""
            /\ ret # None
            /\ ret[1].num * Len(members)
                 = ret[1].den * MemberSum(members, Len(members), call.tempFormat)

\* C10's case: the group UP, asked for as "up" in Celsius, holds three
\* sensors that read 10, 20 and 30, one of them the registered sensor named
\* UP, whose own value is not the mean; the answer is 20.
C10_Witness ==
    /\ call.op = "getTemp" /\ call.area = <<"u","p">> /\ call.tempFormat = "C"
    /\ <<"U","P">> \in DOMAIN groups
    /\ Len(groups[<<"U","P">>]) = 3
    /\ {tempC[s] : s \in Sensors} = {10, 20, 30}
    /\ tempC["s1"] = 10
    /\ ret = Some([num |-> 20, den |-> 1])

\* The value of the first registered sensor whose name is area, letter
\* case ignored, in the unit asked for; None when there is none.
ClaimedSensorValue(area, unit) ==
    LET hits == {i \in 1..Len(tempSensors) :
                    StrUpper(SensorName(tempSensors[i])) = StrUpper(area)}
        first == CHOOSE i \in hits : \A j \in hits : i <= j
    IN  IF hits = {} THEN None
        ELSE Some(Number(IF unit = "C" THEN tempC[tempSensors[first]]
                         ELSE TempF(tempC[tempSensors[first]])))

\* C11: getTemp of an area that names no group returns the value of the
\* registered sensor whose name is the area with letter case ignored,
\* whatever the casing of the area and of the sensor's name; when no sensor
\* has that name either it returns None and changes nothing.
C11_SensorByNameAnyCase ==
    [][(call'.op = "getTemp" /\ StrUpper(call'.area) \notin DOMAIN groups) =>
          /\ err' = ""
          /\ ret' = ClaimedSensorValue(call'.area, call'.tempFormat)
          /\ UNCHANGED <<regVars, thVars, actVars>>]_vars

\* C13: a state command that is neither ON nor OFF (in any letter case)
\* leaves every recorded state and every write log as they were.
C13_InvalidCommandIgnored ==
    [][(/\ call'.op = "setState"
        /\ StrUpper(call'.arg) # ON
        /\ StrUpper(call'.arg) # OFF) =>
          actState' = actState /\ writes' = writes]_vars

\* C13's case: the command AUTO given to an actuator that is ON after one
\* pulse: it is still ON and nothing more was written.
C13_Witness ==
    /\ call.op = "setState" /\ call.arg = <<"A","U","T","O">> /\ call.pre = ON
    /\ actState[call.who] = ON
    /\ writes[call.who] = Pulse(OnChannel)

\* C15: when an empty value is assigned and the selected season has no
\* table (no such key, or no tempSettings at all), no exception escapes,
\* the target is unset and the mode is what it was.
C15_NoTableLeavesTargetUnset ==
    (/\ call.op = "desiredTemp" /\ ~Truthy(call.arg)
     /\ call.season # "NONE"
     /\ \/ tempSettings = None
        \/ tempSettings[1][call.season] = None) =>
        /\ err = ""
        /\ desiredTemp = None
        /\ thMode = call.pre
        /\ actState = [a \in Actuators |-> OFF]

\* The hour field and the minute field of a four-digit schedule time.
HourField(s) == 10 * s[1] + s[2]
MinuteField(s) == 10 * s[3] + s[4]

C17_StateIsEnumerated ==
    [][call'.op = "setState" =>
          /\ actState'[call'.who] =
                IF StrUpper(call'.arg) \in {ON, OFF} THEN StrUpper(call'.arg)
                ELSE actState[call'.who]
          /\ \A a \in Actuators : actState'[a] \in {ON, OFF}]_vars

\* C19: an AUTO computation leaves the schedule table as it was, and when
\* it follows another one with the same value, time and occupancy it
\* yields the same target.
C19_RecomputationRepeatable ==
    [][(call'.op = "desiredTemp" /\ ~Truthy(call'.arg)) =>
          /\ tempSettings' = tempSettings
          /\ (call.op = "desiredTemp" /\ call.arg = call'.arg) =>
                desiredTemp' = desiredTemp]_vars

\* C12: no temperature query is fatal: in every state of the registry,
\* also with a group that has no members, getTemp and publish end without
\* an exception.
C12_QueriesNeverRaise == call.op \in {"getTemp", "publish"} => err = ""


\* The level of a channel of actuator a: the value last written to it.
RECURSIVE Level(_, _)
Level(log, pin) ==
    IF log = <<>> THEN 0
    ELSE IF log[Len(log)][1] = pin THEN log[Len(log)][2]
    ELSE Level(SubSeq(log, 1, Len(log) - 1), pin)

\* C14: commands issued concurrently to one actuator are serialized: no
\* pulse starts inside another one (a high write is followed by its low
\* write), the two channels of an actuator are never both high, and when no
\* command is in progress the recorded state is the command of the pulse
\* emitted last.
C14_CommandsSerialized ==
    /\ \A a \in Actuators : \A i \in 1..(Len(writes[a]) - 1) :
           writes[a][i][2] = 1 => writes[a][i + 1] = <<writes[a][i][1], 0>>
    /\ \A a \in Actuators :
           ~(Level(writes[a], OnChannel) = 1 /\ Level(writes[a], OffChannel) = 1)
    /\ (DOMAIN thr.run = {} /\ thr.last # None) =>
           StrUpper(actState[thr.last[1].who]) = StrUpper(thr.last[1].cmd)


C20_GroupNamesNormalized ==
    [][/\ (/\ call'.op = "addSensorToGroup"
           /\ call'.group \in created
           /\ InList(call'.sensor, tempSensors)
           /\ ~InList(call'.sensor, groups[StrUpper(call'.group)])) =>
              groups' = [groups EXCEPT ![StrUpper(call'.group)] = Append(@, call'.sensor)]
       /\ (/\ call'.op = "getTemp"
           /\ call'.area \in created
           /\ groups[StrUpper(call'.area)] # <<>>) =>
              LET members == groups[StrUpper(call'.area)]
              IN  /\ err' = ""
                  /\ ret' # None
                  /\ ret'[1].num * Len(members)
                       = ret'[1].den * MemberSum(members, Len(members), call'.tempFormat)
       /\ call'.op = "createSensorGroup" =>
              /\ StrUpper(call'.group) \in DOMAIN groups => groups' = groups
              /\ \A k \in DOMAIN groups' : StrUpper(k) = k
      ]_vars

=============================================================================
